---- MODULE Spec2Model ----
(***************************************************************************)
(* node_apns: the Notifier service (lib/services.js) on top of the Push    *)
(* channel (lib/push.js), with the startup Feedback query.                  *)
(*                                                                         *)
(* One action is one turn of the node.js event loop: a call made by the    *)
(* owner of the Notifier, a process.nextTick callback, a timer callback or *)
(* a transport event, run to completion with every listener it triggers.   *)
(***************************************************************************)
EXTENDS Integers, Sequences, FiniteSets, TLC

VARIABLES
    pending,        \* Notifier: var pending = []            (ids of notification objects)
    notifications,  \* Notifier: var notifications = {}      (uid -> id of notification object)
    cansend,        \* Notifier: var cansend = false
    elogs,          \* Notifier: var elogs = []
    blacklist,      \* Notifier: var blacklist = {}          (set of keys)
    consumer,       \* Notifier: var consumer = null         (number of armed 1 s timers)
    graceTimers,    \* number of armed gracePeriod timers (setTimeout in consume)
    ticks,          \* number of queued process.nextTick(consume) callbacks
    fb,             \* the startup Feedback query: "running", "ended", "failed"
    push,           \* Push: uid, cleartextStream, writable, notifications, buffering, callback
    objs,           \* the Notification objects handed to notify(), by id
    sent,           \* uids for which Push emitted 'sent'
    cbLog,          \* per object: values its .callback was called with
    argLog,         \* per object: values the callback given to notify() was called with
    budget,         \* remaining transport events and owner calls (model bounds)
    fault,          \* an exception was thrown out of a handler (process gone)
    halted,         \* of suspend() and restart(), suspend() was called last
    feedback,       \* Feedback: bufferSize, buffer, freeIndex, cleartextStream, events emitted
    wire,           \* the feedback service's stream: bytes not delivered yet, the platform
    note            \* a Notification an owner has built, with its device

vars == <<pending, notifications, cansend, elogs, blacklist, consumer, graceTimers,
          ticks, fb, push, objs, sent, cbLog, argLog, budget, fault, halted,
          feedback, wire, note>>

(***************************************************************************)
(* Bounds of the model.                                                    *)
(***************************************************************************)
MaxNotify == 3      \* calls of notify()
MaxEvents == 1      \* transport failures and inbound records
MaxOwner  == 1      \* calls of suspend() / restart() by the owner
MaxOwnerCalls == 2  \* the same, on a connection that does not fail
MaxSends == 4       \* calls of push.sendNotification() on a Push used by itself
MaxBufferSize == 2  \* options.bufferSize of a Feedback used by itself
MaxRecords == 2     \* tuples the feedback service sends
MaxPartial == 1     \* bytes of one more tuple sent before the stream ends
MaxCustom == 228    \* characters of the custom string an owner puts in a payload
MaxLogged == 101    \* transport closes over the life of a long-running Notifier
MaxChunk == 6       \* bytes of one inbound chunk on the Push connection

(***************************************************************************)
(* JavaScript values that reach a callback or the event log.               *)
(***************************************************************************)
JSNull       == [t |-> "null",   v |-> ""]
JSNumber(s)  == [t |-> "number", v |-> s]
JSString(s)  == [t |-> "string", v |-> s]
JSError(s)   == [t |-> "Error",  v |-> s]

\* a === b
StrictEquals(a, b) == a.t = b.t /\ a.v = b.v

\* The byte data[1] of an error record, as a decimal numeral.
ErrorCodes == {"7", "8"}
\* data[1].toString(): a String
ByteToString(c) == JSString(c)

(***************************************************************************)
(* Device and Notification (validity only).                                *)
(***************************************************************************)
Tokens    == {"a1", "b2"}
\* The tokens the feedback service reports.
FeedbackTokens == {"b2"}

\* The characters of the token strings used.
TokenChars(token) ==
    CASE token = "a1"    -> <<"a", "1">>
      [] token = "b2"    -> <<"b", "2">>
      [] token = "a1 b2" -> <<"a", "1", " ", "b", "2">>
      [] token = "zz"    -> <<"z", "z">>
      [] OTHER           -> << >>

HexChars ==
    <<"0", "1", "2", "3", "4", "5", "6", "7", "8", "9", "a", "b", "c", "d", "e", "f">>
HexValue(c) == (CHOOSE i \in DOMAIN HexChars : HexChars[i] = c) - 1

\* this.token.replace(/\s+/g, '')
StripSpaces(chars) == SelectSeq(chars, LAMBDA c : c # " ")

\* new Buffer(stripped token, 'hex') does not throw
IsHex(token) ==
    LET chars == StripSpaces(TokenChars(token))
    IN  /\ Len(chars) % 2 = 0
        /\ \A i \in DOMAIN chars : \E h \in DOMAIN HexChars : HexChars[h] = chars[i]

\* The token strings used, and those of them that are hex strings.
TokenStrings == Tokens \cup {"a1 b2", "zz"}
HexTokens == {token \in TokenStrings : IsHex(token)}

\* Device.prototype.isValid
DeviceIsValid(token) == token \in HexTokens

\* Device.prototype.toNetwork: the bytes of a valid token
DeviceToNetwork(token) ==
    LET chars == StripSpaces(TokenChars(token))
    IN  [i \in 1..(Len(chars) \div 2) |->
            16 * HexValue(chars[2 * i - 1]) + HexValue(chars[2 * i])]

MaxPayload == 256

\* Notification.prototype.isValid
IsValid_RejectsAtLimit(n) ==
    /\ n.device # "" /\ DeviceIsValid(n.device)
    /\ ~(n.bytes >= MaxPayload)
    /\ n.display
IsValid(n) ==
    /\ n.device # "" /\ DeviceIsValid(n.device)
    /\ ~(n.bytes > MaxPayload)
    /\ n.display

\* The notifications an owner builds: device token, byte length of the
\* serialized payload, whether aps has an alert, sound or badge.
Templates ==
    {[device |-> d, bytes |-> 40, display |-> TRUE] : d \in Tokens}
    \cup {[device |-> "a1", bytes |-> 257, display |-> TRUE],
          [device |-> "b2", bytes |-> 40,  display |-> FALSE],
          [device |-> "zz", bytes |-> 40,  display |-> TRUE]}

\* How the owner asks for the outcome: on objects for "a1" it sets the
\* .callback property, with the others it passes a callback to notify().
HasCallback(tpl) == tpl.device = "a1"
PassesCallback(tpl) == tpl.device # "a1"

NoUid == -1     \* notification.identifier === undefined

(***************************************************************************)
(* Push (lib/push.js).  S is the part of the state a send touches:         *)
(* [push, objs, sent], with emitted: what the handler has done so far on   *)
(* the outside (writes to the stream and events emitted), in order.        *)
(***************************************************************************)
\* A write of notification n to the stream ("write"), or self.emit(name, n).
Event(name, n) == [name |-> name, n |-> n]

\* reported belongs to the gateway: it has sent its error record on this
\* stream, after which it sends nothing more on it.  carried is a history
\* field: how many notifications at the head of the unsent list were put
\* there on a stream that has been cleared since.
InitPush == [uid |-> 0, cleartextStream |-> "null", writable |-> FALSE,
             notifications |-> << >>, buffering |-> FALSE, callback |-> 0,
             reported |-> FALSE, enhanced |-> TRUE, carried |-> 0,
             errors |-> << >>, last |-> NoUid]

\* clearConnection(): the stream is destroyed with all its listeners (the
\* pending connect callback among them); the unsent list is left as it is.
ClearConnection(p) ==
    [p EXCEPT !.cleartextStream = "null", !.writable = FALSE,
              !.buffering = FALSE, !.callback = 0, !.reported = FALSE,
              !.carried = Len(p.notifications), !.last = NoUid]

\* setupConnection(callback): tls.connect returns a stream that is writable
\* from its creation; callback runs when the handshake completes.
SetupConnection(p, n) ==
    [p EXCEPT !.cleartextStream = "connecting", !.writable = TRUE, !.callback = n]

\* The function sendNotification passes to ensureConnection.  full: the
\* transport's write() returned false.
SendBody_QueuedWhenFull(S, n, full) ==
    IF S.push.buffering \/ full
    THEN [S EXCEPT !.push.notifications = Append(@, n), !.push.buffering = TRUE]
    ELSE [S EXCEPT !.sent = @ \cup {S.objs[n].identifier},
                   !.push.last = S.objs[n].identifier,
                   !.emitted = @ \o <<Event("write", n), Event("sent", n)>>]
SendBody_QueuedAtFront(S, n, full) ==
    IF S.push.buffering
    THEN [S EXCEPT !.push.notifications = <<n>> \o @]
    ELSE [S EXCEPT !.push.buffering = full,
                   !.push.last = S.objs[n].identifier,
                   !.sent = @ \cup {S.objs[n].identifier},
                   !.emitted = @ \o <<Event("write", n)>>
                                 \o (IF full THEN <<Event("buffer", n)>> ELSE << >>)
                                 \o <<Event("sent", n)>>]
SendBody(S, n, full) ==
    IF S.push.buffering
    THEN [S EXCEPT !.push.notifications = Append(@, n)]
    ELSE [S EXCEPT !.push.buffering = full,
                   !.push.last = S.objs[n].identifier,
                   !.sent = @ \cup {S.objs[n].identifier},
                   !.emitted = @ \o <<Event("write", n)>>
                                 \o (IF full THEN <<Event("buffer", n)>> ELSE << >>)
                                 \o <<Event("sent", n)>>]

\* this.nextUID = function () { return uid++; }: the counter afterwards
NextUID_Same(uid) == uid
NextUID(uid) == uid + 1

\* push.sendNotification(notification), options.enhanced = true
SendNotification(S, n, full) ==
    LET S1 == IF S.push.enhanced
              THEN [S EXCEPT !.objs[n].identifier = S.push.uid, !.push.uid = NextUID(@)]
              ELSE S
    IN  IF S1.push.cleartextStream # "null" /\ S1.push.writable
        THEN SendBody(S1, n, full)
        ELSE [S1 EXCEPT !.push = SetupConnection(ClearConnection(@), n)]

\* The writes and 'sent' events of a flush of the whole list, in order
Flush(list) ==
    [i \in 1..2 * Len(list) |->
        IF i % 2 = 1 THEN Event("write", list[(i + 1) \div 2])
        ELSE Event("sent", list[i \div 2])]

\* The 'drain' listener's loop.  stop: the number of the write that reports
\* the transport full again (0: none does).
DrainLoop_IgnoresFull(S, stop) ==
    [S EXCEPT !.push.notifications = << >>,
              !.push.buffering = FALSE,
              !.push.carried = 0,
              !.push.last = IF S.push.notifications = << >> THEN @
                            ELSE S.objs[S.push.notifications[
                                            Len(S.push.notifications)]].identifier,
              !.sent = @ \cup {S.objs[S.push.notifications[i]].identifier :
                                  i \in DOMAIN S.push.notifications},
              !.emitted = @ \o Flush(S.push.notifications)]
RECURSIVE DrainLoop(_, _)
DrainLoop(S, stop) ==
    IF S.push.notifications = << >>
    THEN [S EXCEPT !.push.buffering = FALSE]
    ELSE LET n  == Head(S.push.notifications)
             S1 == [S EXCEPT !.push.notifications = Tail(@),
                             !.push.carried = IF @ > 0 THEN @ - 1 ELSE 0,
                             !.push.last = S.objs[n].identifier,
                             !.sent = @ \cup {S.objs[n].identifier},
                             !.emitted = @ \o <<Event("write", n), Event("sent", n)>>]
         IN  IF stop = 1 THEN S1
             ELSE DrainLoop(S1, IF stop = 0 THEN 0 ELSE stop - 1)

\* cleartextStream.on('drain', function () {...})
OnDrain(S, stop) ==
    IF ~S.push.buffering THEN S
    ELSE DrainLoop([S EXCEPT !.emitted = @ \o <<Event("drain", 0)>>], stop)

(***************************************************************************)
(* Notifier (lib/services.js).                                             *)
(***************************************************************************)
Remove(table, k) == [u \in DOMAIN table \ {k} |-> table[u]]

MinKey(K) == CHOOSE x \in K : \A y \in K : x <= y

\* callback.call(notification, value), when the object has a callback
Call(log, objects, n, value) ==
    IF objects[n].callback THEN [log EXCEPT ![n] = Append(@, value)] ELSE log

\* pending.push(notifications[identifier])
Requeue_Dropped(pend, n) == pend
Requeue_Front(pend, n) == <<n>> \o pend
Requeue(pend, n) == Append(pend, n)

\* if (identifier > uid): resend
Resend_Inverted(identifier, uid) == identifier < uid
Resend(identifier, uid) == identifier > uid

\* cleanupAfterErrorOnNotification(uid): for (identifier in notifications),
\* integer keys in ascending order.  N is [pending, cbLog].
RECURSIVE CleanupAfterErrorOnNotification(_, _, _, _)
CleanupAfterErrorOnNotification(N, table, objects, uid) ==
    IF DOMAIN table = {} THEN N
    ELSE LET identifier == MinKey(DOMAIN table)
             n  == table[identifier]
             N1 == IF Resend(identifier, uid)
                   THEN [N EXCEPT !.pending = Requeue(@, n)]
                   ELSE [N EXCEPT !.cbLog = Call(@, objects, n, JSNull)]
         IN  CleanupAfterErrorOnNotification(N1, Remove(table, identifier), objects, uid)

\* The while loop of consume(), cansend being true.  C is
\* [S, pending, notifications]; fulls[i]: the i-th write reports full.
RECURSIVE ConsumeLoop(_, _, _)
ConsumeLoop(C, fulls, i) ==
    IF C.pending = << >> THEN C
    ELSE LET ongoing == Head(C.pending)
             S1  == SendNotification(C.S, ongoing, fulls[i])
             uid == S1.objs[ongoing].identifier
         IN  ConsumeLoop([S |-> S1, pending |-> Tail(C.pending),
                          notifications |->
                              [u \in DOMAIN C.notifications \cup {uid} |->
                                  IF u = uid THEN ongoing ELSE C.notifications[u]]],
                         fulls, i + 1)

elogsMaxCount == 100

\* while (elogs.length > self.elogsMaxCount) elogs.shift()
RECURSIVE ElogsCleanup(_)
ElogsCleanup(log) ==
    IF Len(log) > elogsMaxCount THEN ElogsCleanup(Tail(log)) ELSE log

\* if (consumer) clearTimeout(consumer); consumer = null
Cleared_Not(c) == c
Cleared(c) == IF c > 0 THEN c - 1 ELSE 0

\* What one run of consume() does to the 1 s timers: the armed one is
\* cleared at its start and a new one is armed at its end.
Rearm(c) == Cleared(c) + 1

RECURSIVE RearmTimes(_, _)
RearmTimes(c, runs) == IF runs = 0 THEN c ELSE RearmTimes(Rearm(c), runs - 1)

\* if (ongoing && (pending.length === 0)): ongoing is set when the loop has
\* sent something.
GraceDue_Never(ongoing, pend) == FALSE
GraceDue(ongoing, pend) == ongoing /\ pend = << >>

\* consume(), run `runs` times back to back with c timers armed before it:
\* the runs after the first find cansend false or the queue empty.
Consume(fulls, c, runs) ==
    LET run == cansend /\ pending # << >>
        C0  == [S |-> [push |-> push, objs |-> objs, sent |-> sent, emitted |-> << >>],
                pending |-> pending, notifications |-> notifications]
        C   == IF run THEN ConsumeLoop(C0, fulls, 1) ELSE C0
    IN  /\ pending' = C.pending
        /\ notifications' = C.notifications
        /\ push' = C.S.push
        /\ objs' = C.S.objs
        /\ sent' = C.S.sent
        /\ cansend' = IF GraceDue(run, C.pending) THEN FALSE ELSE cansend
        /\ graceTimers' = IF GraceDue(run, C.pending) THEN graceTimers + 1 ELSE graceTimers
        /\ elogs' = ElogsCleanup(elogs)
        /\ consumer' = RearmTimes(c, runs)
        /\ UNCHANGED <<blacklist, fb, cbLog, argLog, budget, fault, halted,
                feedback, wire, note>>

Running == ~fault
\* Timers and transport events run only once the nextTick queue is empty.
Idle    == Running /\ ticks = 0

Fulls == [1..Len(pending) -> BOOLEAN]

(***************************************************************************)
(* Calls made by the owner of the Notifier.                                *)
(***************************************************************************)
\* notify() without its test of the blacklist.
NotifyOutcome_NoBlacklist(obj, cbArg) ==
    IF ~IsValid(obj)
    THEN [ret |-> FALSE, calls |-> IF cbArg THEN <<JSError("invalid")>> ELSE << >>]
    ELSE [ret |-> TRUE, calls |-> << >>]

\* What notify(notification, callback) returns and what it calls the callback
\* with, for an object obj and cbArg (a callback is passed).
NotifyOutcome(obj, cbArg) ==
    IF obj.device \in blacklist
    THEN [ret |-> FALSE, calls |-> IF cbArg THEN <<JSError("blacklisted")>> ELSE << >>]
    ELSE IF ~IsValid(obj)
    THEN [ret |-> FALSE, calls |-> IF cbArg THEN <<JSError("invalid")>> ELSE << >>]
    ELSE [ret |-> TRUE, calls |-> << >>]

\* pending.push(notification)
Enqueue_Front(pend, n) == <<n>> \o pend
Enqueue(pend, n) == Append(pend, n)

\* The object built from a template; hasCb: it carries a .callback property;
\* cbArg: a callback is passed to notify() with it.
Object(tpl, hasCb, cbArg) ==
    [device |-> tpl.device, bytes |-> tpl.bytes, display |-> tpl.display,
     callback |-> hasCb, arg |-> cbArg, identifier |-> NoUid]

\* notifier.notify(notification, callback).  A rejected object is referenced
\* by nothing afterwards.
Notify(tpl, hasCb, cbArg) ==
    LET obj == Object(tpl, hasCb, cbArg)
    IN  /\ Running
        /\ IF NotifyOutcome(obj, cbArg).ret
           THEN /\ Len(objs) < MaxNotify
                /\ objs' = Append(objs, obj)
                /\ cbLog' = Append(cbLog, << >>)
                /\ argLog' = Append(argLog, NotifyOutcome(obj, cbArg).calls)
                /\ pending' = Enqueue(pending, Len(objs) + 1)
                /\ ticks' = ticks + 1
           ELSE UNCHANGED <<pending, ticks, objs, cbLog, argLog>>
        /\ UNCHANGED <<notifications, cansend, elogs, blacklist, consumer, graceTimers,
                       fb, push, sent, budget, fault, halted,
                               feedback, wire, note>>

\* notifier.suspended(): return !!cansend
Suspended == cansend

\* suspend() that leaves the 1 s timer armed.
DoSuspend_KeepsTimer ==
    /\ cansend' = FALSE
    /\ consumer' = consumer
    /\ halted' = TRUE

\* suspend()
DoSuspend ==
    /\ cansend' = FALSE
    /\ consumer' = Cleared(consumer)
    /\ halted' = TRUE

\* notifier.suspend()
Suspend ==
    /\ Running
    /\ budget.owner > 0
    /\ budget' = [budget EXCEPT !.owner = @ - 1]
    /\ DoSuspend
    /\ UNCHANGED <<pending, notifications, elogs, blacklist, graceTimers, ticks, fb,
                   push, objs, sent, cbLog, argLog, fault,
                           feedback, wire, note>>

\* restart()
DoRestart ==
    /\ cansend' = TRUE
    /\ ticks' = ticks + 1
    /\ halted' = FALSE

\* notifier.restart()
Restart ==
    /\ Running
    /\ budget.owner > 0
    /\ budget' = [budget EXCEPT !.owner = @ - 1]
    /\ DoRestart
    /\ UNCHANGED <<pending, notifications, elogs, blacklist, consumer, graceTimers, fb,
                   push, objs, sent, cbLog, argLog, fault,
                           feedback, wire, note>>

(***************************************************************************)
(* nextTick and timer callbacks.                                           *)
(***************************************************************************)
\* process.nextTick(consume): the queued callbacks run back to back before
\* anything else; after the first, consume() finds nothing to send and only
\* re-arms the timer it has just armed.
TickConsume ==
    /\ Running
    /\ ticks > 0
    /\ ticks' = 0
    /\ \E fulls \in Fulls : Consume(fulls, consumer, ticks)

\* consumer = setTimeout(consume, 1000): the timer fires and is no longer
\* armed when consume() starts.
ConsumerTimer ==
    /\ Idle
    /\ consumer > 0
    /\ UNCHANGED ticks
    /\ \E fulls \in Fulls : Consume(fulls, consumer - 1, 1)

\* The grace timer calling nothing.
CallAll_None(log, table, objects) == log

\* The callbacks of every entry of a table, with no error, in key order.
RECURSIVE CallAll(_, _, _)
CallAll(log, table, objects) ==
    IF DOMAIN table = {} THEN log
    ELSE LET identifier == MinKey(DOMAIN table)
         IN  CallAll(Call(log, objects, table[identifier], JSNull),
                     Remove(table, identifier), objects)

\* The grace timer without its cansend = true.
GraceTimer_NoEnable ==
    /\ Idle
    /\ graceTimers > 0
    /\ graceTimers' = graceTimers - 1
    /\ cbLog' = CallAll(cbLog, notifications, objs)
    /\ notifications' = << >>
    /\ UNCHANGED <<pending, cansend, elogs, blacklist, consumer, ticks, fb, push, objs,
                   sent, argLog, budget, fault, halted,
                           feedback, wire, note>>

\* The function consume() hands to setTimeout(..., self.gracePeriod)
GraceTimer ==
    /\ Idle
    /\ graceTimers > 0
    /\ graceTimers' = graceTimers - 1
    /\ cbLog' = CallAll(cbLog, notifications, objs)
    /\ notifications' = << >>
    /\ cansend' = TRUE
    /\ UNCHANGED <<pending, elogs, blacklist, consumer, ticks, fb, push, objs, sent,
                   argLog, budget, fault, halted,
                           feedback, wire, note>>

(***************************************************************************)
(* The startup Feedback query.                                             *)
(***************************************************************************)
\* fb.on('device')
FeedbackDevice_Restarts(token) ==
    /\ Idle
    /\ fb = "running"
    /\ blacklist' = blacklist \cup {token}
    /\ cansend' = TRUE
    /\ UNCHANGED <<pending, notifications, elogs, consumer, graceTimers, ticks,
                   fb, push, objs, sent, cbLog, argLog, budget, fault, halted,
                   feedback, wire, note>>
FeedbackDevice(token) ==
    /\ Idle
    /\ fb = "running"
    /\ blacklist' = blacklist \cup {token}
    /\ UNCHANGED <<pending, notifications, cansend, elogs, consumer, graceTimers, ticks,
                   fb, push, objs, sent, cbLog, argLog, budget, fault, halted,
                           feedback, wire, note>>

\* fb.on('end'): callback() -> restart()
FeedbackEnd ==
    /\ Idle
    /\ fb = "running"
    /\ fb' = "ended"
    /\ DoRestart
    /\ UNCHANGED <<pending, notifications, elogs, blacklist, consumer, graceTimers,
                   push, objs, sent, cbLog, argLog, budget, fault,
                           feedback, wire, note>>

\* The startup callback calling restart() on a failed query as well.
FeedbackError_Restarts ==
    /\ Idle
    /\ fb = "running"
    /\ fb' = "failed"
    /\ DoRestart
    /\ UNCHANGED <<pending, notifications, elogs, blacklist, consumer, graceTimers,
                   push, objs, sent, cbLog, argLog, budget, fault,
                           feedback, wire, note>>

\* fb.on('clientError') and fb.on('error'): callback(error) returns at once
FeedbackError ==
    /\ Idle
    /\ fb = "running"
    /\ fb' = "failed"
    /\ UNCHANGED <<pending, notifications, cansend, elogs, blacklist, consumer,
                   graceTimers, ticks, push, objs, sent, cbLog, argLog, budget, fault, halted,
                           feedback, wire, note>>

(***************************************************************************)
(* Transport events of the Push stream, with the Notifier's listeners.     *)
(***************************************************************************)
Spend == budget.events > 0 /\ budget' = [budget EXCEPT !.events = @ - 1]

Elog(error, n) == [error |-> error, n |-> n]

\* tls.connect's callback: the listeners are installed, 'authorized' is
\* emitted and the waiting send runs.
Handshake(full) ==
    /\ Idle
    /\ push.cleartextStream = "connecting"
    /\ LET S0 == [push |-> [push EXCEPT !.cleartextStream = "authorized", !.callback = 0],
                  objs |-> objs, sent |-> sent, emitted |-> <<Event("authorized", 0)>>]
           S1 == IF push.callback # 0 THEN SendBody(S0, push.callback, full) ELSE S0
       IN  /\ push' = S1.push
           /\ sent' = S1.sent
    /\ UNCHANGED <<pending, notifications, cansend, elogs, blacklist, consumer,
                   graceTimers, ticks, fb, objs, cbLog, argLog, budget, fault, halted,
                           feedback, wire, note>>

\* delete(notifications[uid]), before the cleanup
DeleteFailing_Kept(table, uid) == table
DeleteFailing(table, uid) == Remove(table, uid)

\* push.on('notificationError', function (error, uid) {...}) of the Notifier
OnNotificationError(error, uid) ==
    /\ elogs' = Append(elogs, Elog(error, IF uid \in DOMAIN notifications
                                          THEN notifications[uid] ELSE 0))
    /\ IF uid \notin DOMAIN notifications
       THEN \* notifications[uid] is undefined: TypeError
            /\ fault' = TRUE
            /\ UNCHANGED <<pending, notifications, blacklist, cbLog>>
       ELSE LET n  == notifications[uid]
                N0 == [pending |-> pending, cbLog |-> Call(cbLog, objs, n, error)]
                N  == CleanupAfterErrorOnNotification(N0, DeleteFailing(notifications, uid),
                                                      objs, uid)
            IN  /\ blacklist' = IF StrictEquals(error, JSNumber("8"))
                                THEN blacklist \cup {objs[n].device} ELSE blacklist
                /\ pending' = N.pending
                /\ cbLog' = N.cbLog
                /\ notifications' = << >>
                /\ UNCHANGED fault

\* cleartextStream.on('data'): a chunk [marker, code, uid]
StreamData(marker, code, uid) ==
    /\ Idle
    /\ push.cleartextStream = "authorized"
    /\ IF marker = 8
       THEN /\ Spend
            /\ ~push.reported
            /\ push' = [push EXCEPT !.reported = TRUE]
            /\ OnNotificationError(ByteToString(code), uid)
       ELSE UNCHANGED <<pending, notifications, elogs, blacklist, cbLog, budget, fault,
                        push>>
    /\ UNCHANGED <<cansend, consumer, graceTimers, ticks, fb, objs, sent, argLog, halted,
            feedback, wire, note>>

\* The whole table resolved as delivered instead of resent.
ResendAll_AsDelivered ==
    LET N == CleanupAfterErrorOnNotification([pending |-> pending, cbLog |-> cbLog],
                                             notifications, objs, push.uid)
    IN  /\ pending' = N.pending
        /\ cbLog' = N.cbLog
        /\ notifications' = << >>

\* cleanupAfterErrorOnNotification(-1) on the whole table
ResendAll ==
    LET N == CleanupAfterErrorOnNotification([pending |-> pending, cbLog |-> cbLog],
                                             notifications, objs, -1)
    IN  /\ pending' = N.pending
        /\ cbLog' = N.cbLog
        /\ notifications' = << >>

\* cleartextStream.once('close'): 'close' is emitted, then clearConnection()
StreamClose ==
    /\ Idle
    /\ push.cleartextStream = "authorized"
    /\ Spend
    /\ elogs' = Append(elogs, Elog(JSString("closed"), 0))
    /\ ResendAll
    /\ push' = ClearConnection(push)
    /\ UNCHANGED <<cansend, blacklist, consumer, graceTimers, ticks, fb, objs, sent,
                   argLog, fault, halted,
                           feedback, wire, note>>

\* cleartextStream.on('error'): clearConnection(), then 'error' is emitted
StreamError ==
    /\ Idle
    /\ push.cleartextStream # "null"
    /\ Spend
    /\ push' = ClearConnection(push)
    /\ elogs' = Append(elogs, Elog(JSError("stream"), 0))
    /\ ResendAll
    /\ DoSuspend
    /\ UNCHANGED <<blacklist, graceTimers, ticks, fb, objs, sent, argLog, fault,
            feedback, wire, note>>

\* cleartextStream.on('clientError'): no listener in the Notifier
StreamClientError ==
    /\ Idle
    /\ push.cleartextStream = "connecting"
    /\ Spend
    /\ push' = ClearConnection(push)
    /\ UNCHANGED <<pending, notifications, cansend, elogs, blacklist, consumer,
                   graceTimers, ticks, fb, objs, sent, cbLog, argLog, fault, halted,
                           feedback, wire, note>>

\* cleartextStream.on('timeout')
StreamTimeout_LogsOnly ==
    /\ Idle
    /\ push.cleartextStream = "authorized"
    /\ Spend
    /\ UNCHANGED <<pending, notifications, cansend, elogs, blacklist, consumer,
                   graceTimers, ticks, fb, push, objs, sent, cbLog, argLog, fault,
                   halted, feedback, wire, note>>

StreamTimeout ==
    /\ Idle
    /\ push.cleartextStream = "authorized"
    /\ Spend
    /\ push' = ClearConnection(push)
    /\ UNCHANGED <<pending, notifications, cansend, elogs, blacklist, consumer,
                   graceTimers, ticks, fb, objs, sent, cbLog, argLog, fault, halted,
                           feedback, wire, note>>

\* cleartextStream.on('end'): the peer has shut the stream, which is no
\* longer writable; 'close' has not been emitted yet.
StreamEnd ==
    /\ Idle
    /\ push.cleartextStream = "authorized"
    /\ push.writable
    /\ Spend
    /\ push' = [push EXCEPT !.writable = FALSE]
    /\ UNCHANGED <<pending, notifications, cansend, elogs, blacklist, consumer,
                   graceTimers, ticks, fb, objs, sent, cbLog, argLog, fault, halted,
                           feedback, wire, note>>

\* cleartextStream.on('drain')
StreamDrain(stop) ==
    /\ Idle
    /\ push.cleartextStream = "authorized"
    /\ push.buffering
    /\ LET S == OnDrain([push |-> push, objs |-> objs, sent |-> sent,
                          emitted |-> << >>], stop)
       IN  /\ push' = S.push
           /\ sent' = S.sent
    /\ UNCHANGED <<pending, notifications, cansend, elogs, blacklist, consumer,
                   graceTimers, ticks, fb, objs, cbLog, argLog, budget, fault, halted,
                           feedback, wire, note>>

(***************************************************************************)
(* Feedback (lib/feedback.js): the reader of the feedback service's        *)
(* stream of 38-byte tuples.  Bytes are numbers in 0..255; offsets are     *)
(* counted from 0 as in the code.                                          *)
(***************************************************************************)
tupleSize == 38

\* new Buffer(size) is not initialised: what it holds is the platform's
\* (two of the byte values it may hold).
JunkBytes == {0, 127}

\* buf.writeUInt32BE(value), buf.writeUInt16BE(value): the bytes written
U32BE_LittleEndian(value) ==
    <<value % 256, (value \div 256) % 256, (value \div 65536) % 256,
      (value \div 16777216) % 256>>
U32BE(value) ==
    <<(value \div 16777216) % 256, (value \div 65536) % 256,
      (value \div 256) % 256, value % 256>>
U16BE(value) == <<(value \div 256) % 256, value % 256>>

\* buf.readUInt32BE(offset), buf.readUInt16BE(offset)
ReadUInt32BE(buf, offset) ==
    buf[offset + 1] * 16777216 + buf[offset + 2] * 65536
        + buf[offset + 3] * 256 + buf[offset + 4]
ReadUInt16BE(buf, offset) == buf[offset + 1] * 256 + buf[offset + 2]

\* buf.slice(start, end), end clamped to the length of buf
Slice(buf, start, end) ==
    SubSeq(buf, start + 1, IF end > Len(buf) THEN Len(buf) ELSE end)

\* The r-th tuple the service sends: time, tokenLength = 32, token.
FeedbackTime(r) == 1357000000 + r
FeedbackToken(r) == [i \in 1..32 |-> (32 * r + i) % 256]
Tuple(r) == U32BE(FeedbackTime(r)) \o U16BE(32) \o FeedbackToken(r)

\* The stream: k tuples, then the first p bytes of one more.
Stream(k, p) ==
    [i \in 1..(tupleSize * k + p) |->
        Tuple(((i - 1) \div tupleSize) + 1)[((i - 1) % tupleSize) + 1]]

\* self.emit('device', time, token.toString('hex')), self.emit('end')
DeviceEvent(time, token) == [name |-> "device", time |-> time, token |-> token]
EndEvent == [name |-> "end", time |-> 0, token |-> << >>]

\* Feedback(tls_opts, {bufferSize: size}), its connection under way
NewFeedback(size, junk) ==
    [bufferSize |-> size, buffer |-> [i \in 1..tupleSize * size |-> junk],
     freeIndex |-> 0, cleartextStream |-> "connecting", emitted |-> << >>]

\* var tuple = new Buffer(tupleSize); buffer.copy(tuple, 0, i, tuple.length):
\* the bytes of buffer from i up to tuple.length (not i + tuple.length) are
\* copied to the start of tuple, whose other bytes stay uninitialised.
CopyTuple(buffer, i, junk) ==
    [j \in 1..tupleSize |-> IF i + j <= tupleSize THEN buffer[i + j] ELSE junk]

\* tuples(callback), callback emitting 'device'; from index i of the loop.
\* F is [buffer, freeIndex, emitted, thrown]; W.strict: buffer.copy throws
\* when sourceEnd < sourceStart.
RECURSIVE Tuples(_, _, _)
Tuples(F, i, W) ==
    IF ~(i < F.freeIndex) THEN F
    ELSE IF i > tupleSize /\ W.strict THEN [F EXCEPT !.thrown = TRUE]
    ELSE LET tuple == CopyTuple(F.buffer, i, W.junk)
             time  == ReadUInt32BE(tuple, 0)
             token == Slice(tuple, 6, ReadUInt16BE(tuple, 4) + 6)
         IN  Tuples([F EXCEPT !.emitted = Append(@, DeviceEvent(time, token))],
                    i + tupleSize, W)

\* data.copy(buffer, freeIndex, 0, count)
CopyInto(buffer, freeIndex, data, count) ==
    [j \in 1..Len(buffer) |->
        IF j > freeIndex /\ j <= freeIndex + count THEN data[j - freeIndex]
        ELSE buffer[j]]

\* feedBuffer(data)
RECURSIVE FeedBuffer(_, _, _)
FeedBuffer(F, data, W) ==
    LET freeBytes == Len(F.buffer) - F.freeIndex
    IN  IF freeBytes > 0
        THEN IF freeBytes > Len(data)
             THEN [F EXCEPT !.buffer = CopyInto(@, F.freeIndex, data, Len(data)),
                            !.freeIndex = @ + Len(data)]
             ELSE FeedBuffer([F EXCEPT !.buffer = CopyInto(@, F.freeIndex, data, freeBytes),
                                       !.freeIndex = @ + freeBytes],
                             SubSeq(data, freeBytes + 1, Len(data)), W)
        ELSE LET F1 == Tuples(F, 0, W)
                 F2 == [F1 EXCEPT !.freeIndex = 0]
             IN  IF F1.thrown THEN F1
                 ELSE IF Len(data) > 0 THEN FeedBuffer(F2, data, W) ELSE F2

\* The 'end' listener, up to self.emit('end')
OnEnd(F, W) ==
    LET F1 == IF F.freeIndex > 0
              THEN [Tuples(F, 0, W) EXCEPT !.freeIndex = 0]
              ELSE F
    IN  IF F.freeIndex > 0 /\ Tuples(F, 0, W).thrown
        THEN Tuples(F, 0, W)
        ELSE [F1 EXCEPT !.emitted = Append(@, EndEvent)]

\* The reader's buffer, index and events, for the functions above
Reader ==
    [buffer |-> feedback.buffer, freeIndex |-> feedback.freeIndex,
     emitted |-> feedback.emitted, thrown |-> FALSE]

\* tls.connect's callback of the Feedback: the listeners are installed
FeedbackConnected ==
    /\ Running
    /\ feedback.cleartextStream = "connecting"
    /\ feedback' = [feedback EXCEPT !.cleartextStream = "authorized"]
    /\ UNCHANGED <<pending, notifications, cansend, elogs, blacklist, consumer,
                   graceTimers, ticks, fb, push, objs, sent, cbLog, argLog, budget,
                   fault, halted, wire, note>>

\* cleartextStream.on('data'): the next count bytes of the stream arrive
FeedbackOnData(count) ==
    /\ Running
    /\ feedback.cleartextStream = "authorized"
    /\ count \in 1..Len(wire.rest)
    /\ LET F == FeedBuffer(Reader, SubSeq(wire.rest, 1, count), wire)
       IN  /\ feedback' = [feedback EXCEPT !.buffer = F.buffer,
                                           !.freeIndex = F.freeIndex,
                                           !.emitted = F.emitted]
           /\ fault' = F.thrown
    /\ wire' = [wire EXCEPT !.rest = SubSeq(@, count + 1, Len(@))]
    /\ UNCHANGED <<pending, notifications, cansend, elogs, blacklist, consumer,
                   graceTimers, ticks, fb, push, objs, sent, cbLog, argLog, budget,
                   halted, note>>

\* cleartextStream.on('end'): the service has sent all it had; the buffer
\* is flushed, 'end' is emitted, then clearConnection()
FeedbackOnEnd ==
    /\ Running
    /\ feedback.cleartextStream = "authorized"
    /\ wire.rest = << >>
    /\ LET F == OnEnd(Reader, wire)
       IN  /\ feedback' = [feedback EXCEPT !.buffer = F.buffer,
                                           !.freeIndex = F.freeIndex,
                                           !.emitted = F.emitted,
                                           !.cleartextStream =
                                               IF F.thrown THEN @ ELSE "null"]
           /\ fault' = F.thrown
    /\ UNCHANGED <<pending, notifications, cansend, elogs, blacklist, consumer,
                   graceTimers, ticks, fb, push, objs, sent, cbLog, argLog, budget,
                   halted, wire, note>>

\* No Feedback is used by itself (the Notifier's own query is fb), nothing
\* is on its stream, no Notification is under construction.
NoFeedback ==
    [bufferSize |-> 0, buffer |-> << >>, freeIndex |-> 0, cleartextStream |-> "null",
     emitted |-> << >>]
NoWire == [rest |-> << >>, records |-> 0, partial |-> 0, junk |-> 0, strict |-> FALSE]
NoNote == [device |-> ""]

(***************************************************************************)
(* Notification (lib/services.js), with its payload and its frame.  A      *)
(* string is the sequence of its code points; note is                      *)
(* [device, payload, alert, badge, sound, expiry, identifier], the payload *)
(* being {k: <custom>, aps: {alert: <alert>}} with either key left out.    *)
(***************************************************************************)
Undefined    == [t |-> "undefined", v |-> << >>]
Text(chars)  == [t |-> "string", v |-> chars]
Number(n)    == [t |-> "number", v |-> <<n>>]

\* !!x
Truthy(x) ==
    \/ x.t = "string" /\ x.v # << >>
    \/ x.t = "number" /\ x.v[1] # 0

\* normalizedPayload(): the payload's keys, with aps.alert, aps.sound and
\* aps.badge replaced by the notification's own when of the right type
NormalizedPayload(n) ==
    [k   |-> n.payload.k,
     aps |-> [alert |-> IF n.alert.t = "string" THEN n.alert ELSE n.payload.alert,
              sound |-> IF n.sound.t = "string" THEN n.sound ELSE Undefined,
              badge |-> IF n.badge.t = "number" THEN n.badge ELSE Undefined]]

RECURSIVE Join(_)
Join(members) ==
    IF members = << >> THEN << >>
    ELSE IF Len(members) = 1 THEN members[1]
    ELSE members[1] \o <<44>> \o Join(Tail(members))

\* JSON.stringify of a string (no character to escape) or a number below 10
ValueJSON(x) ==
    IF x.t = "string" THEN <<34>> \o x.v \o <<34>> ELSE <<48 + x.v[1]>>

\* "key":value, for a key that is set
Member(key, x) ==
    IF x.t = "undefined" THEN << >> ELSE <<<<34>> \o key \o <<34, 58>> \o ValueJSON(x)>>

\* JSON.stringify(normalized): {"k":"...","aps":{"alert":...,"sound":...,"badge":...}}
Stringify(normalized) ==
    <<123>>
    \o Join(Member(<<107>>, normalized.k)
            \o << <<34, 97, 112, 115, 34, 58, 123>>
                  \o Join(Member(<<97, 108, 101, 114, 116>>, normalized.aps.alert)
                          \o Member(<<115, 111, 117, 110, 100>>, normalized.aps.sound)
                          \o Member(<<98, 97, 100, 103, 101>>, normalized.aps.badge))
                  \o <<125>> >>)
    \o <<125>>

\* The bytes of a string in utf8 (code points below 2048)
RECURSIVE Utf8(_)
Utf8(chars) ==
    IF chars = << >> THEN << >>
    ELSE IF Len(chars) = 1
    THEN (IF chars[1] < 128 THEN chars
          ELSE <<192 + (chars[1] \div 64), 128 + (chars[1] % 64)>>)
    ELSE Utf8(SubSeq(chars, 1, Len(chars) \div 2))
         \o Utf8(SubSeq(chars, (Len(chars) \div 2) + 1, Len(chars)))

\* The inverse of Utf8 on its range: one code point per leading byte
FromUtf8(bytes) ==
    LET leads == SelectSeq([i \in 1..Len(bytes) |-> i],
                           LAMBDA i : bytes[i] < 128 \/ bytes[i] >= 192)
    IN  [c \in 1..Len(leads) |->
            IF bytes[leads[c]] < 128 THEN bytes[leads[c]]
            ELSE (bytes[leads[c]] - 192) * 64 + (bytes[leads[c] + 1] - 128)]

\* Buffer.byteLength(str, "utf8")
ByteLength(chars) == Len(Utf8(chars))

\* payloadString()
PayloadString(n) == Stringify(NormalizedPayload(n))

\* What isValid() looks at: the device's token, the byte length of the
\* payload string, whether aps.alert, aps.sound or aps.badge is truthy.
Described(n) ==
    [device  |-> n.device,
     bytes   |-> ByteLength(PayloadString(n)),
     display |-> \/ Truthy(NormalizedPayload(n).aps.alert)
                 \/ Truthy(NormalizedPayload(n).aps.sound)
                 \/ Truthy(NormalizedPayload(n).aps.badge)]

\* Notification.prototype.toNetwork, of a notification with a valid device
ToNetwork(n) ==
    LET token   == DeviceToNetwork(n.device)
        payload == Utf8(PayloadString(n))
    IN  (IF n.identifier # NoUid
         THEN <<1>> \o U32BE(n.identifier) \o U32BE(n.expiry)
         ELSE <<0>>)
        \o U16BE(Len(token)) \o token \o U16BE(Len(payload)) \o payload

\* cleartextStream.write(notification.toNetwork()) of a Push, for a
\* notification that isValid(): the frame is on the stream
NoteWrite ==
    /\ Running
    /\ IsValid(Described(note))
    /\ wire.rest = << >>
    /\ wire' = [wire EXCEPT !.rest = ToNetwork(note)]
    /\ UNCHANGED <<pending, notifications, cansend, elogs, blacklist, consumer,
                   graceTimers, ticks, fb, push, objs, sent, cbLog, argLog, budget,
                   fault, halted, feedback, note>>

\* notifier.notify(note), once.  blacklist[notification.device.token]
\* throws a TypeError when the notification has no device.
NoteNotify ==
    /\ objs = << >>
    /\ IF note.device = ""
       THEN /\ Running
            /\ fault' = TRUE
            /\ UNCHANGED <<pending, notifications, cansend, elogs, blacklist, consumer,
                           graceTimers, ticks, fb, push, objs, sent, cbLog, argLog,
                           budget, halted, feedback, wire, note>>
       ELSE Notify(Described(note), FALSE, FALSE)

(***************************************************************************)
(* The specification.                                                      *)
(***************************************************************************)
Init ==
    /\ pending = << >>
    /\ notifications = << >>
    /\ cansend = FALSE
    /\ elogs = << >>
    /\ blacklist = {}
    /\ consumer = 0
    /\ graceTimers = 0
    /\ ticks = 0
    /\ fb = "running"
    /\ push = InitPush
    /\ objs = << >>
    /\ sent = {}
    /\ cbLog = << >>
    /\ argLog = << >>
    /\ budget = [events |-> MaxEvents, owner |-> MaxOwner]
    /\ fault = FALSE
    /\ halted = FALSE
    /\ feedback = NoFeedback
    /\ wire = NoWire
    /\ note = NoNote

Next ==
    \/ \E tpl \in Templates : Notify(tpl, HasCallback(tpl), PassesCallback(tpl))
    \/ Suspend
    \/ Restart
    \/ TickConsume
    \/ ConsumerTimer
    \/ GraceTimer
    \/ \E token \in FeedbackTokens : FeedbackDevice(token)
    \/ FeedbackEnd
    \/ FeedbackError
    \/ \E full \in BOOLEAN : Handshake(full)
    \/ \E marker \in {0, 8}, code \in ErrorCodes, uid \in 0..push.uid :
          StreamData(marker, code, uid)
    \/ StreamClose
    \/ StreamError
    \/ StreamClientError
    \/ StreamTimeout
    \/ StreamEnd
    \/ \E stop \in 0..Len(push.notifications) : StreamDrain(stop)

Spec == Init /\ [][Next]_vars

(***************************************************************************)
(* Vocabulary of the properties.                                           *)
(***************************************************************************)
Range(seq) == {seq[i] : i \in DOMAIN seq}
Count(seq, x) == Cardinality({i \in DOMAIN seq : seq[i] = x})
Pos(seq, x) == CHOOSE i \in DOMAIN seq : seq[i] = x

RECURSIVE Ascending(_)
Ascending(K) ==
    IF K = {} THEN << >>
    ELSE LET m == MinKey(K) IN <<m>> \o Ascending(K \ {m})

\* The in-flight objects with a sequence number in K, by ascending number.
InFlightAscending(K) ==
    LET keys == Ascending(K) IN [i \in 1..Len(keys) |-> notifications[keys[i]]]

Above(k) == {u \in DOMAIN notifications : u > k}
Below(k) == {u \in DOMAIN notifications : u < k}

\* The step is the arrival of the error record (code, k) for an in-flight k.
ErrorReport(code, k) == StreamData(8, code, k) /\ k \in DOMAIN notifications

\* The call of notify() the owner makes with a template.
NotifyCall(tpl) == Notify(tpl, HasCallback(tpl), PassesCallback(tpl))
Built(tpl) == Object(tpl, HasCallback(tpl), PassesCallback(tpl))
Rejectable(tpl) == tpl.device \in blacklist \/ ~IsValid(Built(tpl))

(***************************************************************************)
(* C1: notify() of a notification whose token is blacklisted, or which is  *)
(* not valid, returns false, calls the callback passed exactly once with   *)
(* the blacklisted / invalid error, and leaves the pending queue and the   *)
(* in-flight table as they were (nothing is handed to Push).               *)
(***************************************************************************)
C1_RejectedNotify ==
    /\ [](\A tpl \in Templates :
            Rejectable(tpl) =>
                LET out == NotifyOutcome(Built(tpl), PassesCallback(tpl))
                IN  /\ out.ret = FALSE
                    /\ PassesCallback(tpl) =>
                         out.calls = <<JSError(IF tpl.device \in blacklist
                                               THEN "blacklisted" ELSE "invalid")>>)
    /\ [][\A tpl \in Templates :
            (Rejectable(tpl) /\ NotifyCall(tpl)) =>
                /\ pending' = pending
                /\ notifications' = notifications
                /\ push' = push /\ sent' = sent /\ objs' = objs]_vars

\* A token is blacklisted while a notification waits in the queue, and a
\* notification for that token, like an oversized one, is rejected.
C1_Witness ==
    /\ "b2" \in blacklist
    /\ pending # << >>
    /\ \E tpl \in Templates :
          /\ tpl.device = "b2" /\ IsValid(Built(tpl))
          /\ NotifyOutcome(Built(tpl), TRUE) =
                [ret |-> FALSE, calls |-> <<JSError("blacklisted")>>]
    /\ \E tpl \in Templates :
          /\ tpl.bytes > MaxPayload
          /\ ~NotifyOutcome(Built(tpl), TRUE).ret

(***************************************************************************)
(* C2: a notification accepted by notify(notification, callback), once its *)
(* grace period is over with no error report and no connection failure,    *)
(* has had that callback called with no error.                             *)
(***************************************************************************)
Resolved(n) == n \notin Range(pending) /\ n \notin Range(notifications)

C2_PassedCallbackCalled ==
    \A n \in DOMAIN objs :
        (objs[n].arg /\ Resolved(n) /\ elogs = << >> /\ budget.events = MaxEvents)
            => argLog[n] = <<JSNull>>

(***************************************************************************)
(* C3: a notification is confirmed (its callback called with no error)     *)
(* only after 'sent' was emitted for it; none is confirmed while it waits  *)
(* for the handshake or sits in Push's list of unsent notifications.       *)
(***************************************************************************)
Confirmed(n) == \E i \in DOMAIN cbLog[n] : cbLog[n][i] = JSNull

C3_ConfirmedOnlyIfSent ==
    \A n \in DOMAIN objs : Confirmed(n) => objs[n].identifier \in sent

(***************************************************************************)
(* C4: the completion handler of an accepted notification is called at     *)
(* most once, with no error or with one error.                             *)
(***************************************************************************)
C4_AtMostOnce ==
    \A n \in DOMAIN objs : Len(cbLog[n]) <= 1 /\ Len(argLog[n]) <= 1

\* An error report has been resolved: one handler got the error, another
\* got no error, and nothing is left pending or in flight.
C4_Witness ==
    /\ \E n \in DOMAIN objs : \E c \in ErrorCodes : cbLog[n] = <<JSString(c)>>
    /\ \E m \in DOMAIN objs : cbLog[m] = <<JSNull>>
    /\ pending = << >> /\ notifications = << >> /\ graceTimers = 0

(***************************************************************************)
(* C5: on the error report (code, k) for an in-flight k, the handler of    *)
(* notification k is called once, with the error; the handler of every     *)
(* in-flight notification with a number below k is called once with no     *)
(* error; and the in-flight table is empty afterwards.                     *)
(***************************************************************************)
C5_ErrorReportResolves ==
    [][\A code \in ErrorCodes, k \in 0..push.uid :
          ErrorReport(code, k) =>
              /\ notifications' = << >>
              /\ objs[notifications[k]].callback =>
                    cbLog'[notifications[k]] =
                        Append(cbLog[notifications[k]], JSString(code))
              /\ \A u \in Below(k) :
                    objs[notifications[u]].callback =>
                        cbLog'[notifications[u]] =
                            Append(cbLog[notifications[u]], JSNull)]_vars

\* Report 8 has been logged for n: n's handler got "8", the handler of m,
\* sent before n, got no error, and the table is empty.
C5_Witness ==
    \E n \in DOMAIN objs, m \in DOMAIN objs :
        /\ elogs = <<Elog(JSString("8"), n)>>
        /\ cbLog[n] = <<JSString("8")>>
        /\ cbLog[m] = <<JSNull>>
        /\ objs[m].identifier < objs[n].identifier
        /\ notifications = << >>

(***************************************************************************)
(* C6: on the error report for k, every in-flight notification with a      *)
(* number above k is put on the pending queue exactly once, the moved ones *)
(* in ascending order of their numbers, and none of them has its handler   *)
(* called.                                                                 *)
(***************************************************************************)
C6_ErrorReportRequeues ==
    [][\A code \in ErrorCodes, k \in 0..push.uid :
          ErrorReport(code, k) =>
              /\ \A u \in Above(k) :
                    /\ Count(pending', notifications[u]) = 1
                    /\ cbLog'[notifications[u]] = cbLog[notifications[u]]
              /\ \A u \in Above(k), w \in Above(k) :
                    u < w => Pos(pending', notifications[u]) < Pos(pending', notifications[w])
              /\ Len(pending') = Len(pending) + Cardinality(Above(k))]_vars

\* Two notifications sent after the reported one are back on the queue, in
\* the order of the numbers they were sent with, their handlers not called.
C6_Witness ==
    \E n \in DOMAIN objs, i \in DOMAIN pending, j \in DOMAIN pending :
        /\ \E code \in ErrorCodes : elogs = <<Elog(JSString(code), n)>>
        /\ i < j
        /\ objs[n].identifier < objs[pending[i]].identifier
        /\ objs[pending[i]].identifier < objs[pending[j]].identifier
        /\ cbLog[pending[i]] = << >> /\ cbLog[pending[j]] = << >>

C9_InvalidTokenBlacklisted ==
    [][\A k \in 0..push.uid :
          ErrorReport("8", k) =>
              /\ objs[notifications[k]].device \in blacklist'
              /\ Len(elogs') = Len(elogs) + 1]_vars

(***************************************************************************)
(* C10: on 'error' and on 'close' of the Push stream every in-flight       *)
(* notification is appended to the pending queue in ascending order of its *)
(* number, no handler is called, the table is empty afterwards and the     *)
(* event log has one more entry.                                           *)
(***************************************************************************)
C10_StreamFailureRequeuesAll ==
    [][(StreamClose \/ StreamError) =>
          /\ pending' = pending \o InFlightAscending(DOMAIN notifications)
          /\ cbLog' = cbLog
          /\ notifications' = << >>
          /\ Len(elogs') = Len(elogs) + 1]_vars

\* After 'close': two notifications that had been sent are pending again in
\* the order of their numbers, no handler was called, nothing is in flight.
C10_Witness ==
    /\ elogs = <<Elog(JSString("closed"), 0)>>
    /\ notifications = << >>
    /\ Len(pending) >= 2
    /\ objs[pending[1]].identifier # NoUid
    /\ objs[pending[1]].identifier < objs[pending[2]].identifier
    /\ \A n \in DOMAIN objs : cbLog[n] = << >>

(***************************************************************************)
(* Dispatch that nobody suspends: the owner does not call suspend() and    *)
(* the stream raises no 'error' (whose listener calls suspend()); the      *)
(* nextTick queue and the timers of node.js run when they are due.         *)
(***************************************************************************)
NextUnsuspended ==
    \/ \E tpl \in Templates : Notify(tpl, HasCallback(tpl), PassesCallback(tpl))
    \/ Restart
    \/ TickConsume
    \/ ConsumerTimer
    \/ GraceTimer
    \/ \E token \in FeedbackTokens : FeedbackDevice(token)
    \/ FeedbackEnd
    \/ FeedbackError
    \/ \E full \in BOOLEAN : Handshake(full)
    \/ \E marker \in {0, 8}, code \in ErrorCodes, uid \in 0..push.uid :
          StreamData(marker, code, uid)
    \/ StreamClose
    \/ StreamClientError
    \/ StreamTimeout
    \/ StreamEnd
    \/ \E stop \in 0..Len(push.notifications) : StreamDrain(stop)

\* ENABLED <<TickConsume>>_vars and ENABLED <<ConsumerTimer>>_vars: a timer
\* pass that sends nothing changes nothing.
TickDue == Running /\ ticks > 0
PassDue == Idle /\ consumer > 0 /\ cansend /\ pending # << >>

\* Weak fairness of the grace timer, of the nextTick queue and of the 1 s
\* timer; the last two are WF_vars(TickConsume) and WF_vars(ConsumerTimer)
\* written out, with ENABLED as the state predicates above.
SpecUnsuspended ==
    /\ Init /\ [][NextUnsuspended]_vars
    /\ WF_vars(GraceTimer)
    /\ ([]<>(~TickDue) \/ []<><<TickConsume>>_vars)
    /\ ([]<>(~PassDue) \/ []<><<ConsumerTimer>>_vars)

(***************************************************************************)
(* C8: a notification put back on the pending queue after it had been sent *)
(* is eventually sent again, and each send gives a notification a number   *)
(* greater than every number given before.                                 *)
(***************************************************************************)
Requeued(n) ==
    n \in DOMAIN objs /\ n \in Range(pending) /\ objs[n].identifier # NoUid

C8_RequeuedSentAgain ==
    /\ (\E n \in DOMAIN objs : Requeued(n)) ~> (\A n \in DOMAIN objs : ~Requeued(n))
    /\ [][\A n \in DOMAIN objs :
            objs'[n].identifier # objs[n].identifier =>
                /\ objs'[n].identifier >= push.uid
                /\ \A m \in DOMAIN objs : objs'[n].identifier > objs[m].identifier
                /\ push'.uid > objs'[n].identifier]_vars

\* A notification requeued by an error report is in flight again under a
\* number greater than the one reported.
C8_Witness ==
    \E n \in DOMAIN objs, m \in DOMAIN objs, code \in ErrorCodes :
        /\ elogs = <<Elog(JSString(code), n)>>
        /\ objs[m].identifier \in DOMAIN notifications
        /\ notifications[objs[m].identifier] = m
        /\ objs[m].identifier >= Len(objs)
        /\ objs[m].identifier > objs[n].identifier

C12_EnabledAfterFeedback ==
    [][(FeedbackEnd \/ FeedbackError) => (cansend' /\ ticks' = ticks + 1)]_vars

(***************************************************************************)
(* C12 amended: dispatch is enabled and a pass queued only when the query  *)
(* ends normally; when it fails with clientError or error, cansend and the *)
(* nextTick queue are left as they were (the owner has to call restart()). *)
(***************************************************************************)
C12_EnabledOnlyOnEnd ==
    /\ [][FeedbackEnd => (cansend' /\ ticks' = ticks + 1)]_vars
    /\ [][FeedbackError =>
            (cansend' = cansend /\ ticks' = ticks /\ pending' = pending)]_vars

\* The query has failed: a pass of consume() has run and armed its timer,
\* but the accepted notification stays in the queue, dispatch being off.
C12_Witness ==
    /\ fb = "failed"
    /\ ~cansend /\ ticks = 0 /\ consumer > 0
    /\ pending # << >>
    /\ push.uid = 0

(***************************************************************************)
(* C13: from the return of suspend() until restart() is called, no pass of *)
(* consume() hands a notification to Push (every send takes a new uid and  *)
(* shortens the pending queue).                                            *)
(***************************************************************************)
C13_NoSendWhileSuspended ==
    [][(halted /\ halted') => (push'.uid = push.uid /\ Len(pending') >= Len(pending))]_vars

(***************************************************************************)
(* C14: notifier.suspended() returns true exactly when dispatch is         *)
(* disabled (cansend false: before the startup query has ended, after      *)
(* suspend()) and false exactly when it is enabled (after restart()).      *)
(***************************************************************************)
C14_SuspendedReports == Suspended <=> ~cansend

(***************************************************************************)
(* The owner's control of dispatch on a connection that does not fail: the *)
(* owner may call suspend() and restart() several times; the stream raises *)
(* no failure and delivers no error record.                                *)
(***************************************************************************)
InitOwner ==
    /\ pending = << >>
    /\ notifications = << >>
    /\ cansend = FALSE
    /\ elogs = << >>
    /\ blacklist = {}
    /\ consumer = 0
    /\ graceTimers = 0
    /\ ticks = 0
    /\ fb = "running"
    /\ push = InitPush
    /\ objs = << >>
    /\ sent = {}
    /\ cbLog = << >>
    /\ argLog = << >>
    /\ budget = [events |-> 0, owner |-> MaxOwnerCalls]
    /\ fault = FALSE
    /\ halted = FALSE
    /\ feedback = NoFeedback
    /\ wire = NoWire
    /\ note = NoNote

NextOwner ==
    \/ \E tpl \in Templates : Notify(tpl, HasCallback(tpl), PassesCallback(tpl))
    \/ Suspend
    \/ Restart
    \/ TickConsume
    \/ ConsumerTimer
    \/ GraceTimer
    \/ \E token \in FeedbackTokens : FeedbackDevice(token)
    \/ FeedbackEnd
    \/ FeedbackError
    \/ \E full \in BOOLEAN : Handshake(full)
    \/ \E stop \in 0..Len(push.notifications) : StreamDrain(stop)

SpecOwner == InitOwner /\ [][NextOwner]_vars

(***************************************************************************)
(* C15: suspend() called right after suspend() changes nothing and raises  *)
(* no fault; restart() called right after restart() leaves cansend true;   *)
(* and there is never more than one 1 s timer armed, however many passes   *)
(* of consume() the calls of restart() have queued.                        *)
(***************************************************************************)
\* The state suspend() leaves, no pass of consume() having run since.
JustSuspended == halted /\ ~cansend /\ consumer = 0
\* The state restart() leaves, its pass of consume() still queued.
JustRestarted == ~halted /\ cansend /\ ticks > 0

C15_Idempotent ==
    /\ [][(JustSuspended /\ Suspend) =>
            (UNCHANGED <<pending, notifications, cansend, elogs, blacklist, consumer,
                         graceTimers, ticks, fb, push, objs, sent, cbLog, argLog, halted>>
             /\ ~fault')]_vars
    /\ [][(JustRestarted /\ Restart) => (cansend' /\ ~fault' /\ consumer' <= 1)]_vars
    /\ [](consumer <= 1)

\* The owner has called restart() twice in a row: cansend is true and two
\* passes of consume() are queued, nothing else having happened.
C15_Witness ==
    /\ budget.owner = MaxOwnerCalls - 2
    /\ fb = "running" /\ objs = << >>
    /\ cansend /\ ticks = 2 /\ consumer = 0

(***************************************************************************)
(* C16: as long as no error record has arrived and the connection has not  *)
(* failed, notifications are handed to Push in the order notify() accepted *)
(* them: if a was accepted before b and b has been sent, a has been sent   *)
(* too, with a smaller uid.                                                *)
(***************************************************************************)
NoFailure == elogs = << >> /\ budget.events = MaxEvents

C16_FifoDispatch ==
    NoFailure =>
        \A a \in DOMAIN objs, b \in DOMAIN objs :
            (a < b /\ objs[b].identifier # NoUid) =>
                (objs[a].identifier # NoUid /\ objs[a].identifier < objs[b].identifier)

\* Three notifications accepted one after the other have been sent as 0, 1
\* and 2 in two passes: the first two are confirmed, the third is in flight.
C16_Witness ==
    /\ NoFailure
    /\ Len(objs) = 3
    /\ \A n \in DOMAIN objs : objs[n].identifier = n - 1
    /\ DOMAIN notifications = {2}

(***************************************************************************)
(* C17: when the grace timer fires, the callback of every notification in  *)
(* the in-flight table that has one is called with no error, the others'   *)
(* logs are left alone, the table is empty afterwards and cansend is true. *)
(***************************************************************************)
C17_GraceTimerConfirms ==
    [][GraceTimer =>
          /\ notifications' = << >>
          /\ cansend'
          /\ \A u \in DOMAIN notifications :
                LET n == notifications[u]
                IN  cbLog'[n] = IF objs[n].callback
                                THEN Append(cbLog[n], JSNull) ELSE cbLog[n]]_vars

\* The one grace timer has fired over two in-flight notifications: the one
\* with a callback is confirmed, the other's log is empty, dispatch is on.
C17_Witness ==
    /\ NoFailure /\ graceTimers = 0 /\ cansend /\ notifications = << >>
    /\ pending = << >> /\ push.uid = 2
    /\ \E n \in DOMAIN objs, m \in DOMAIN objs :
          /\ objs[n].callback /\ cbLog[n] = <<JSNull>>
          /\ ~objs[m].callback /\ objs[m].identifier # NoUid /\ cbLog[m] = << >>

(***************************************************************************)
(* C18.  A pass is one run of consume() from the nextTick queue or from    *)
(* the 1 s timer; it has sent something when push.uid has grown.           *)
(***************************************************************************)
Pass == TickConsume \/ ConsumerTimer
Sends == push'.uid # push.uid

\* A pass that sends leaves the queue empty, disables dispatch and starts a
\* grace timer; a pass that sends nothing starts none.
PassStartsGrace ==
    /\ [][(Pass /\ Sends) =>
            (pending' = << >> /\ ~cansend' /\ graceTimers' = graceTimers + 1)]_vars
    /\ [][(Pass /\ ~Sends) =>
            (graceTimers' = graceTimers /\ cansend' = cansend)]_vars

(***************************************************************************)
(* C18 as stated: the above, and while a grace timer is armed nothing is   *)
(* handed to Push.                                                         *)
(***************************************************************************)
C18_NoSendDuringGrace ==
    /\ PassStartsGrace
    /\ [][graceTimers > 0 => ~Sends]_vars

(***************************************************************************)
(* C18 amended: the above, and while a grace timer is armed nothing is     *)
(* handed to Push unless restart() is called in the meantime: only         *)
(* restart() turns dispatch on while a grace timer is armed, or lets a     *)
(* second grace timer be armed.                                            *)
(***************************************************************************)
RestartedInGrace == graceTimers > 0 /\ (cansend \/ graceTimers >= 2)

C18_NoSendDuringGraceUnlessRestarted ==
    /\ PassStartsGrace
    /\ [][(graceTimers > 0 /\ ~RestartedInGrace) => ~Sends]_vars
    /\ [][(~RestartedInGrace /\ RestartedInGrace') => (Restart \/ FeedbackEnd)]_vars

\* A pass has sent a notification and its grace timer is armed; a
\* notification accepted since then has been through a pass of consume()
\* and is still in the queue, not sent.
C18_Witness ==
    /\ NoFailure /\ graceTimers = 1 /\ ~cansend
    /\ notifications # << >>
    /\ ticks = 0 /\ consumer > 0
    /\ pending # << >> /\ objs[pending[1]].identifier = NoUid
    /\ budget.owner = MaxOwner

(***************************************************************************)
(* A Push channel used by itself (README, "Push"): its owner calls         *)
(* sendNotification() with one new Notification after the other; the       *)
(* channel is created with options.enhanced true (the default) or false.   *)
(* The Notifier's variables keep their initial values.                     *)
(***************************************************************************)
\* The state a call of push.sendNotification() with a new Notification
\* leaves: [push, objs, sent, emitted].
SendNew(full) ==
    SendNotification([push |-> push,
                      objs |-> Append(objs, Object([device |-> "a1", bytes |-> 40,
                                                    display |-> TRUE], FALSE, FALSE)),
                      sent |-> sent, emitted |-> << >>],
                     Len(objs) + 1, full)

\* push.sendNotification(notification), called by the owner of the Push
PushSend(full) ==
    /\ Running
    /\ Len(objs) < MaxSends
    /\ push' = SendNew(full).push
    /\ objs' = SendNew(full).objs
    /\ sent' = SendNew(full).sent
    /\ UNCHANGED <<pending, notifications, cansend, elogs, blacklist, consumer,
                   graceTimers, ticks, fb, cbLog, argLog, budget, fault, halted,
                           feedback, wire, note>>

\* push.close(now), called by the owner of the Push: destroySoon() or
\* destroy() is called on cleartextStream, which throws a TypeError when
\* there is no stream, before clearConnection() is reached.
PushClose(now) ==
    /\ Running
    /\ IF push.cleartextStream = "null"
       THEN fault' = TRUE /\ UNCHANGED push
       ELSE push' = ClearConnection(push) /\ UNCHANGED fault
    /\ UNCHANGED <<pending, notifications, cansend, elogs, blacklist, consumer,
                   graceTimers, ticks, fb, objs, sent, cbLog, argLog, budget, halted,
                           feedback, wire, note>>

InitPushOnly ==
    /\ pending = << >>
    /\ notifications = << >>
    /\ cansend = FALSE
    /\ elogs = << >>
    /\ blacklist = {}
    /\ consumer = 0
    /\ graceTimers = 0
    /\ ticks = 0
    /\ fb = "running"
    /\ push \in {[InitPush EXCEPT !.enhanced = e] : e \in BOOLEAN}
    /\ objs = << >>
    /\ sent = {}
    /\ cbLog = << >>
    /\ argLog = << >>
    /\ budget = [events |-> MaxEvents, owner |-> 0]
    /\ fault = FALSE
    /\ halted = FALSE
    /\ feedback = NoFeedback
    /\ wire = NoWire
    /\ note = NoNote

NextPushOnly ==
    \/ \E full \in BOOLEAN : PushSend(full)
    \/ \E now \in BOOLEAN : PushClose(now)
    \/ \E full \in BOOLEAN : Handshake(full)
    \/ \E stop \in 0..Len(push.notifications) : StreamDrain(stop)
    \/ StreamClientError
    \/ StreamTimeout
    \/ StreamEnd

SpecPush == InitPushOnly /\ [][NextPushOnly]_vars

(***************************************************************************)
(* C19: with options.enhanced, the k-th call of sendNotification() gives   *)
(* its notification the uid k - 1 (from 0, strictly increasing in call     *)
(* order, no uid given twice, reconnections included); without it, no      *)
(* call assigns an identifier.                                             *)
(***************************************************************************)
C19_UidPerSend ==
    /\ push.enhanced =>
          /\ push.uid = Len(objs)
          /\ \A n \in DOMAIN objs : objs[n].identifier = n - 1
    /\ ~push.enhanced =>
          \A n \in DOMAIN objs : objs[n].identifier = NoUid

\* Three sends on an enhanced channel, the third after the stream had timed
\* out and a new one was set up: uids 0, 1 and 2.
C19_Witness ==
    /\ push.enhanced
    /\ budget.events < MaxEvents
    /\ push.cleartextStream = "authorized"
    /\ Len(objs) = 3
    /\ \A n \in DOMAIN objs : objs[n].identifier = n - 1
    /\ 2 \in sent

(***************************************************************************)
(* C20: sendNotification() on an authorized, writable stream that is not   *)
(* buffering writes the frame at once and emits 'sent' once for it,        *)
(* whether or not write() reports the stream full; it emits 'buffer' once  *)
(* and starts buffering if and only if write() reports it full; nothing is *)
(* put on the list of unsent notifications.                                *)
(***************************************************************************)
AuthorizedIdle ==
    push.cleartextStream = "authorized" /\ push.writable /\ ~push.buffering

C20_SendWhenIdle ==
    /\ [](AuthorizedIdle /\ Len(objs) < MaxSends =>
            \A full \in BOOLEAN :
                LET n == Len(objs) + 1
                IN  /\ SendNew(full).emitted =
                           <<Event("write", n)>>
                           \o (IF full THEN <<Event("buffer", n)>> ELSE << >>)
                           \o <<Event("sent", n)>>
                    /\ SendNew(full).push.buffering = full
                    /\ SendNew(full).push.notifications = push.notifications
                    /\ SendNew(full).push.cleartextStream = "authorized")
    /\ [][\A full \in BOOLEAN :
            (AuthorizedIdle /\ PushSend(full)) =>
                /\ push'.buffering = full
                /\ sent' = sent \cup {objs'[Len(objs')].identifier}
                /\ push'.notifications = push.notifications]_vars

\* The second send on an authorized channel found the stream full: both
\* notifications have been sent, the channel is buffering with nothing on
\* its list of unsent notifications.
C20_Witness ==
    /\ push.enhanced
    /\ push.cleartextStream = "authorized" /\ push.buffering
    /\ push.notifications = << >>
    /\ Len(objs) = 2 /\ sent = {0, 1}
    /\ budget.events = MaxEvents

(***************************************************************************)
(* C21: sendNotification() on an authorized, writable stream that is       *)
(* buffering puts the notification at the tail of the list of unsent       *)
(* notifications and returns: nothing is written, neither 'sent' nor       *)
(* 'buffer' is emitted, and the channel is still buffering on the same     *)
(* stream.                                                                 *)
(***************************************************************************)
AuthorizedBuffering ==
    push.cleartextStream = "authorized" /\ push.writable /\ push.buffering

C21_SendWhenBuffering ==
    /\ [](AuthorizedBuffering /\ Len(objs) < MaxSends =>
            \A full \in BOOLEAN :
                /\ SendNew(full).emitted = << >>
                /\ SendNew(full).push.notifications =
                       Append(push.notifications, Len(objs) + 1)
                /\ SendNew(full).push.buffering
                /\ SendNew(full).push.cleartextStream = "authorized"
                /\ SendNew(full).sent = sent)
    /\ [][\A full \in BOOLEAN :
            (AuthorizedBuffering /\ PushSend(full)) =>
                /\ push'.notifications = Append(push.notifications, Len(objs'))
                /\ sent' = sent
                /\ push'.buffering /\ push'.cleartextStream = "authorized"]_vars

\* The first send found the stream full; the second and the third were put
\* on the list in call order and nothing but the first has been written.
C21_Witness ==
    /\ push.enhanced
    /\ AuthorizedBuffering
    /\ push.notifications = <<2, 3>>
    /\ sent = {0}
    /\ budget.events = MaxEvents

(***************************************************************************)
(* C22: a 'drain' of the stream while the channel is buffering emits       *)
(* 'drain' and writes the unsent notifications in the order of the list,   *)
(* with one 'sent' after each write; it stops at the first write that      *)
(* reports the stream full, the channel still buffering and the rest of    *)
(* the list kept in order; buffering ends only when the list was emptied   *)
(* with no write reporting full.  A 'drain' while not buffering writes     *)
(* and emits nothing.                                                      *)
(***************************************************************************)
\* The state the 'drain' listener leaves, run in the current state
Drained(stop) ==
    OnDrain([push |-> push, objs |-> objs, sent |-> sent, emitted |-> << >>], stop)

C22_DrainFlushesInOrder ==
    /\ [](push.buffering =>
            \A stop \in 0..Len(push.notifications) :
                LET k == IF stop = 0 THEN Len(push.notifications) ELSE stop
                    flushed == SubSeq(push.notifications, 1, k)
                IN  /\ Drained(stop).emitted = <<Event("drain", 0)>> \o Flush(flushed)
                    /\ Drained(stop).push.notifications =
                           SubSeq(push.notifications, k + 1, Len(push.notifications))
                    /\ Drained(stop).push.buffering = (stop # 0)
                    /\ Drained(stop).sent =
                           sent \cup {objs[flushed[i]].identifier : i \in 1..k})
    /\ [](~push.buffering =>
            /\ Drained(0).emitted = << >>
            /\ Drained(0).push = push
            /\ Drained(0).sent = sent)
    /\ [][\A stop \in 0..Len(push.notifications) :
            StreamDrain(stop) =>
                LET k == IF stop = 0 THEN Len(push.notifications) ELSE stop
                IN  /\ push'.notifications =
                           SubSeq(push.notifications, k + 1, Len(push.notifications))
                    /\ push'.buffering = (stop # 0)
                    /\ sent' = sent \cup {objs[push.notifications[i]].identifier :
                                              i \in 1..k}]_vars

\* Three notifications were on the list; the flush wrote the first of them,
\* which reported the stream full: the other two are still on the list, in
\* order, and the channel is still buffering.
C22_Witness ==
    /\ push.enhanced
    /\ AuthorizedBuffering
    /\ push.notifications = <<3, 4>>
    /\ sent = {0, 1}
    /\ budget.events = MaxEvents

(***************************************************************************)
(* C23: the notifications that were on the list of unsent notifications    *)
(* when the stream was cleared (close, error, timeout) are not retried by  *)
(* the channel: no later 'drain' writes any of them to a later stream.     *)
(***************************************************************************)
C23_UnflushedNotRetried ==
    [][\A stop \in 0..Len(push.notifications) :
          StreamDrain(stop) => push.carried = 0]_vars

(***************************************************************************)
(* C24: close(now), for now true or false and whatever the state of the    *)
(* channel (no stream, connecting, authorized, buffering or not), returns  *)
(* without throwing and leaves the channel with no stream and not          *)
(* buffering.                                                              *)
(***************************************************************************)
C24_CloseNeverRaises ==
    [][\A now \in BOOLEAN :
          PushClose(now) =>
              (~fault' /\ push'.cleartextStream = "null" /\ ~push'.buffering)]_vars

(***************************************************************************)
(* C25: sendNotification() on a channel with no stream sets a stream up,   *)
(* and a notification passed while there is no stream or while the stream  *)
(* is connecting is not written (and no 'sent' is emitted for it) before   *)
(* the handshake completes; the handshake then writes the waiting          *)
(* notifications in call order, so that no notification is written before  *)
(* one passed earlier on the same stream.                                  *)
(***************************************************************************)
Unconnected == push.cleartextStream \in {"null", "connecting"}

C25_SendsWaitForHandshake ==
    /\ [](Unconnected /\ Len(objs) < MaxSends =>
            \A full \in BOOLEAN :
                /\ SendNew(full).push.cleartextStream = "connecting"
                /\ SendNew(full).emitted = << >>
                /\ SendNew(full).sent = sent)
    /\ [][\A full \in BOOLEAN :
            (Handshake(full) /\ push.callback # 0) =>
                /\ objs[push.callback].identifier \in sent'
                /\ \A n \in DOMAIN objs :
                      (n > push.callback /\ push.enhanced) =>
                          objs[n].identifier \notin sent]_vars

(***************************************************************************)
(* A Feedback used by itself (README, "Feedback"): created with            *)
(* options.bufferSize, it reads what the service sends, in chunks of any   *)
(* size, until the service ends the stream.                                *)
(***************************************************************************)
InitFeedbackOnly ==
    /\ pending = << >>
    /\ notifications = << >>
    /\ cansend = FALSE
    /\ elogs = << >>
    /\ blacklist = {}
    /\ consumer = 0
    /\ graceTimers = 0
    /\ ticks = 0
    /\ fb = "running"
    /\ push = InitPush
    /\ objs = << >>
    /\ sent = {}
    /\ cbLog = << >>
    /\ argLog = << >>
    /\ budget = [events |-> 0, owner |-> 0]
    /\ fault = FALSE
    /\ halted = FALSE
    /\ wire \in {[rest |-> Stream(k, p), records |-> k, partial |-> p,
                  junk |-> junk, strict |-> strict] :
                    k \in 0..MaxRecords, p \in 0..MaxPartial,
                    junk \in JunkBytes, strict \in BOOLEAN}
    /\ feedback \in {NewFeedback(size, wire.junk) : size \in 1..MaxBufferSize}
    /\ note = NoNote

NextFeedbackOnly ==
    \/ FeedbackConnected
    \/ \E count \in 1..Len(wire.rest) : FeedbackOnData(count)
    \/ FeedbackOnEnd

SpecFeedback == InitFeedbackOnly /\ [][NextFeedbackOnly]_vars

\* The 'device' event of the r-th tuple sent
Reported(r) == DeviceEvent(FeedbackTime(r), FeedbackToken(r))

(***************************************************************************)
(* C26: whatever options.bufferSize (1 or more) and however a stream of K  *)
(* whole tuples is cut into chunks, when the Feedback emits 'end' it has   *)
(* emitted exactly K 'device' events, in the order of the stream, each     *)
(* with the time and the token of its tuple.                               *)
(***************************************************************************)
C26_EveryTupleReported ==
    (wire.partial = 0 /\ feedback.emitted # << >>
        /\ feedback.emitted[Len(feedback.emitted)] = EndEvent) =>
            feedback.emitted = [r \in 1..wire.records |-> Reported(r)] \o <<EndEvent>>

(***************************************************************************)
(* C27: when the service ends the stream, the Feedback emits one 'device'  *)
(* event for each whole tuple its buffer holds, with that tuple's time and *)
(* token, and then 'end'; bytes of an incomplete tuple after the last      *)
(* whole one give no 'device' event.                                       *)
(***************************************************************************)
\* The 'device' event of the whole tuple at offset i of the buffer
Held(buffer, i) ==
    LET tuple == SubSeq(buffer, i + 1, i + tupleSize)
    IN  DeviceEvent(ReadUInt32BE(tuple, 0), Slice(tuple, 6, ReadUInt16BE(tuple, 4) + 6))

C27_EndFlushesWholeTuples ==
    [][FeedbackOnEnd =>
          feedback'.emitted =
              feedback.emitted
              \o [r \in 1..(feedback.freeIndex \div tupleSize) |->
                      Held(feedback.buffer, tupleSize * (r - 1))]
              \o <<EndEvent>>]_vars

(***************************************************************************)
(* A Notification by itself: an owner has built it (device token, payload, *)
(* alert, badge, sound, expiry; an identifier if a Push assigned one),     *)
(* hands it to notifier.notify(), and a Push writes its frame.             *)
(***************************************************************************)
\* A string of count characters "x"
Filler(count) == [i \in 1..count |-> 120]

\* The values an owner gives the fields: alert "", "hi" or "é"; badge 0 or
\* 1; sound "s"; payload.k "" or a long string; payload.aps.alert "yo".
Alerts   == {Undefined, Text(<< >>), Text(<<104, 105>>), Text(<<233>>)}
Badges   == {Undefined, Number(0), Number(1)}
Sounds   == {Undefined, Text(<<115>>)}
Customs  == {Undefined, Text(<< >>)}
                \cup {Text(Filler(count)) : count \in (MaxCustom - 3)..MaxCustom}
Payloads == {[k |-> k, alert |-> alert] :
                k \in Customs, alert \in {Undefined, Text(<<121, 111>>)}}
Expiries == {0, 1357000000}
Identifiers == {NoUid, 0, 258}

Notes ==
    [device : {"a1", "a1 b2", "zz", ""}, payload : Payloads, alert : Alerts,
     badge : Badges, sound : Sounds, expiry : Expiries, identifier : Identifiers]

InitNotification ==
    /\ pending = << >>
    /\ notifications = << >>
    /\ cansend = FALSE
    /\ elogs = << >>
    /\ blacklist = {}
    /\ consumer = 0
    /\ graceTimers = 0
    /\ ticks = 0
    /\ fb = "running"
    /\ push = InitPush
    /\ objs = << >>
    /\ sent = {}
    /\ cbLog = << >>
    /\ argLog = << >>
    /\ budget = [events |-> 0, owner |-> 0]
    /\ fault = FALSE
    /\ halted = FALSE
    /\ feedback = NoFeedback
    /\ wire = NoWire
    /\ note \in Notes

NextNotification ==
    \/ NoteNotify
    \/ NoteWrite

SpecNotification == InitNotification /\ [][NextNotification]_vars

(***************************************************************************)
(* C28: a notification whose payload string (own alert, badge and sound    *)
(* merged in) is longer than 256 bytes is not valid, and notify() rejects  *)
(* it: nothing is queued for dispatch; one of exactly 256 bytes with a     *)
(* valid device and an alert, sound or badge is valid and is queued.       *)
(***************************************************************************)
Oversize == Described(note).bytes > MaxPayload
AtLimit ==
    /\ Described(note).bytes = MaxPayload
    /\ DeviceIsValid(note.device)
    /\ Described(note).display

C28_OversizeRejected ==
    /\ [](Oversize =>
            /\ ~IsValid(Described(note))
            /\ note.device # "" =>
                  ~NotifyOutcome(Object(Described(note), FALSE, FALSE), FALSE).ret)
    /\ [](AtLimit => IsValid(Described(note)))
    /\ [][(Oversize /\ NoteNotify) =>
            UNCHANGED <<pending, objs, ticks, notifications, push, sent>>]_vars
    /\ [][(AtLimit /\ NoteNotify) =>
            (pending' = <<1>> /\ objs'[1].bytes = MaxPayload)]_vars

\* notify() has queued a notification whose payload string has 256 bytes,
\* two of them for the one character of its alert.
C28_Witness ==
    /\ pending = <<1>>
    /\ objs[1].bytes = MaxPayload
    /\ note.alert = Text(<<233>>)
    /\ Len(PayloadString(note)) = MaxPayload - 1

(***************************************************************************)
(* C29: a notification with a valid device token and a payload string of   *)
(* at most 256 bytes is valid if an alert, a badge, a sound or a custom    *)
(* key is present, whatever their values (a badge of 0, a payload with     *)
(* custom keys only), and is not valid if none is.                         *)
(***************************************************************************)
Present(x) == x.t # "undefined"

ContentPresent ==
    \/ Present(NormalizedPayload(note).aps.alert)
    \/ Present(NormalizedPayload(note).aps.badge)
    \/ Present(NormalizedPayload(note).aps.sound)
    \/ Present(NormalizedPayload(note).k)

C29_ValidWhenContentPresent ==
    (note.device # "" /\ DeviceIsValid(note.device)
        /\ Described(note).bytes <= MaxPayload) =>
            (IsValid(Described(note)) <=> ContentPresent)

(***************************************************************************)
(* C30: the frame toNetwork() gives for a valid notification, read back    *)
(* field by field (simple format when the notification has no identifier,  *)
(* extended otherwise), gives the bytes of the device token, the payload   *)
(* string and, in the extended format, the identifier and the expiry; it   *)
(* is 1 + 2 + tokenLength + 2 + payloadLength bytes long in the simple     *)
(* format and 9 + 2 + tokenLength + 2 + payloadLength in the extended one. *)
(***************************************************************************)
\* buf.toString('hex')
ToHex(bytes) ==
    [i \in 1..2 * Len(bytes) |->
        IF i % 2 = 1 THEN HexChars[(bytes[(i + 1) \div 2] \div 16) + 1]
        ELSE HexChars[(bytes[i \div 2] % 16) + 1]]

\* The fields of a frame, by the layout toNetwork() writes
Decoded(frame) ==
    LET extended      == frame[1] = 1
        at            == IF extended THEN 9 ELSE 1
        tokenLength   == ReadUInt16BE(frame, at)
        payloadAt     == at + 2 + tokenLength
        payloadLength == ReadUInt16BE(frame, payloadAt)
    IN  [extended   |-> extended,
         identifier |-> IF extended THEN ReadUInt32BE(frame, 1) ELSE NoUid,
         expiry     |-> IF extended THEN ReadUInt32BE(frame, 5) ELSE 0,
         token      |-> SubSeq(frame, at + 3, at + 2 + tokenLength),
         payload    |-> SubSeq(frame, payloadAt + 3, payloadAt + 2 + payloadLength),
         end        |-> payloadAt + 2 + payloadLength]

C30_FrameRoundTrip ==
    wire.rest # << >> =>
        LET d == Decoded(wire.rest)
            tokenLength   == Len(StripSpaces(TokenChars(note.device))) \div 2
            payloadLength == ByteLength(PayloadString(note))
        IN  /\ d.extended = (note.identifier # NoUid)
            /\ wire.rest[1] \in {0, 1}
            /\ ToHex(d.token) = StripSpaces(TokenChars(note.device))
            /\ FromUtf8(d.payload) = PayloadString(note)
            /\ d.extended => (d.identifier = note.identifier /\ d.expiry = note.expiry)
            /\ d.end = Len(wire.rest)
            /\ Len(wire.rest) = (IF note.identifier # NoUid THEN 9 ELSE 1)
                                    + 2 + tokenLength + 2 + payloadLength

\* The frame of a notification with a two-byte token written with a space,
\* a payload string of 256 bytes, the identifier 258 and an expiry: 271
\* bytes in the extended format.
C30_Witness ==
    /\ wire.rest # << >>
    /\ note.device = "a1 b2"
    /\ note.identifier = 258 /\ note.expiry = 1357000000
    /\ Described(note).bytes = MaxPayload
    /\ Len(wire.rest) = 9 + 2 + 2 + 2 + MaxPayload
    /\ note.alert = Text(<<233>>)

(***************************************************************************)
(* C31 as stated: nothing is handed to Push while the startup feedback     *)
(* query is running; a notification accepted meanwhile stays in the queue, *)
(* and a token the query reports is in the blacklist at once, so before    *)
(* the first dispatch.                                                     *)
(***************************************************************************)
C31_NoDispatchBeforeFeedback ==
    /\ [](fb = "running" =>
            (push.uid = 0 /\ pending = [i \in 1..Len(objs) |-> i]))
    /\ [][\A token \in FeedbackTokens :
            FeedbackDevice(token) => token \in blacklist']_vars

(***************************************************************************)
(* C31 amended: the same as long as the owner has not called restart():    *)
(* while the query is running dispatch is disabled, only restart() enables *)
(* it, and nothing is handed to Push while it is disabled.                 *)
(***************************************************************************)
C31_NoDispatchBeforeFeedbackUnlessRestarted ==
    /\ [](fb = "running" /\ budget.owner = MaxOwner =>
            (~cansend /\ push.uid = 0 /\ pending = [i \in 1..Len(objs) |-> i]))
    /\ [][(fb = "running" /\ fb' = "running" /\ ~cansend /\ cansend') =>
            (Restart \/ GraceTimer)]_vars
    /\ [][(push.uid = 0 /\ Sends) => cansend]_vars
    /\ [][\A token \in FeedbackTokens :
            FeedbackDevice(token) => token \in blacklist']_vars

\* The query is still running and has reported "b2"; a notification for
\* "a1" accepted meanwhile has been through a pass of consume() and is
\* still in the queue.
C31_Witness ==
    /\ fb = "running" /\ budget.owner = MaxOwner
    /\ blacklist = {"b2"}
    /\ pending = <<1>> /\ objs[1].device = "a1"
    /\ ticks = 0 /\ consumer > 0
    /\ push.uid = 0

(***************************************************************************)
(* A Notifier that lives long enough to log more than elogsMaxCount        *)
(* events: one notification, and a connection that the service closes      *)
(* after every send, up to MaxLogged times.                                *)
(***************************************************************************)
InitLogged ==
    /\ pending = << >>
    /\ notifications = << >>
    /\ cansend = FALSE
    /\ elogs = << >>
    /\ blacklist = {}
    /\ consumer = 0
    /\ graceTimers = 0
    /\ ticks = 0
    /\ fb = "running"
    /\ push = InitPush
    /\ objs = << >>
    /\ sent = {}
    /\ cbLog = << >>
    /\ argLog = << >>
    /\ budget = [events |-> MaxLogged, owner |-> 0]
    /\ fault = FALSE
    /\ halted = FALSE
    /\ feedback = NoFeedback
    /\ wire = NoWire
    /\ note = NoNote

NotifyFirst ==
    /\ objs = << >>
    /\ \E tpl \in Templates : Notify(tpl, HasCallback(tpl), PassesCallback(tpl))

NextLogged ==
    \/ NotifyFirst
    \/ FeedbackEnd
    \/ TickConsume
    \/ ConsumerTimer
    \/ GraceTimer
    \/ \E full \in BOOLEAN : Handshake(full)
    \/ StreamClose

SpecLogged == InitLogged /\ [][NextLogged]_vars

\* C32: after any operation or handler of the Notifier the event log holds
\* at most elogsMaxCount entries.
C32_ElogsBounded == Len(elogs) <= elogsMaxCount

Disconnected == push.cleartextStream = "null" /\ ~push.buffering

(***************************************************************************)
(* C33: after a 'close', 'error', 'clientError' or 'timeout' of the        *)
(* transport Push holds no transport and is not buffering; it stays so     *)
(* until the next send, and that send starts a new connection.             *)
(***************************************************************************)
C33_FailureDisconnects ==
    /\ [][(StreamClose \/ StreamError \/ StreamClientError \/ StreamTimeout) =>
            Disconnected']_vars
    /\ [][(Disconnected /\ ~Disconnected') => Sends]_vars
    /\ [][(Disconnected /\ Sends) => push'.cleartextStream = "connecting"]_vars

\* The transport was closed by the service, and the next send has started
\* a new connection.
C33_Witness ==
    /\ elogs = <<Elog(JSString("closed"), 0)>>
    /\ push.cleartextStream = "connecting"
    /\ push.uid = 2

(***************************************************************************)
(* The 'data' listener of Push over the bytes of an inbound chunk.  The    *)
(* events it emits are kept in push.errors.  data[1] of a one-byte chunk   *)
(* is undefined, so .toString() throws; readUInt32BE(2) throws when the    *)
(* chunk ends before byte 5.                                               *)
(***************************************************************************)
Chunks == UNION {[1..size -> {1, 8}] : size \in 1..MaxChunk}

RECURSIVE NumberToString(_)
NumberToString(n) ==
    LET Digits == <<"0", "1", "2", "3", "4", "5", "6", "7", "8", "9">>
    IN  IF n < 10 THEN Digits[n + 1]
        ELSE NumberToString(n \div 10) \o Digits[(n % 10) + 1]

NotificationError(error, uid) == [name |-> "notificationError", error |-> error, uid |-> uid]

PushOnData(data) ==
    /\ Idle
    /\ push.cleartextStream = "authorized"
    /\ Spend
    /\ IF data[1] = 8
       THEN IF Len(data) >= 6
            THEN /\ push' = [push EXCEPT !.errors =
                                Append(@, NotificationError(JSString(NumberToString(data[2])),
                                                            ReadUInt32BE(data, 2)))]
                 /\ UNCHANGED fault
            ELSE fault' = TRUE /\ UNCHANGED push
       ELSE UNCHANGED <<push, fault>>
    /\ UNCHANGED <<pending, notifications, cansend, elogs, blacklist, consumer,
                   graceTimers, ticks, fb, objs, sent, cbLog, argLog, halted,
                   feedback, wire, note>>

NextInbound ==
    \/ NextPushOnly
    \/ \E data \in Chunks : PushOnData(data)

SpecInbound == InitPushOnly /\ [][NextInbound]_vars

(***************************************************************************)
(* C34: a chunk whose first byte is 8 makes Push emit exactly one          *)
(* notificationError, with the code of byte 1 and the big-endian number of *)
(* bytes 2..5; any other chunk emits nothing and leaves Push as it was.    *)
(***************************************************************************)
C34_ErrorRecordParsed ==
    [][\A data \in Chunks : PushOnData(data) =>
          IF data[1] = 8
          THEN /\ ~fault'
               /\ Len(push'.errors) = Len(push.errors) + 1
               /\ Len(data) >= 6 =>
                    push'.errors[Len(push'.errors)] =
                        NotificationError(JSString(NumberToString(data[2])),
                                          ((data[3] * 256 + data[4]) * 256 + data[5]) * 256
                                              + data[6])
          ELSE push' = push /\ ~fault']_vars

(***************************************************************************)
(* C35: a reader of capacity B emits 'device' events in batches: a chunk   *)
(* gives B events each time it fills the buffer, for the next B records of *)
(* the stream in order, and nothing for the bytes left in the buffer,      *)
(* which are reported only when the stream ends.                           *)
(***************************************************************************)
C35_BatchFlush ==
    [][\A count \in 1..Len(wire.rest) : FeedbackOnData(count) =>
          /\ ~fault'
          /\ feedback'.freeIndex = (feedback.freeIndex + count) % Len(feedback.buffer)
          /\ feedback'.emitted =
                feedback.emitted
                \o [r \in 1..(((feedback.freeIndex + count) \div Len(feedback.buffer))
                                * feedback.bufferSize) |->
                        Reported(Len(feedback.emitted) + r)]]_vars

(***************************************************************************)
(* C36: a notificationError for a uid that is not in the table of          *)
(* notifications in flight throws nothing, calls no callback and leaves    *)
(* the queue, the table and the blacklist as they were.                    *)
(***************************************************************************)
C36_UnknownUidIgnored ==
    [][\A code \in ErrorCodes, uid \in 0..push.uid :
          (StreamData(8, code, uid) /\ uid \notin DOMAIN notifications) =>
              (~fault' /\ UNCHANGED <<pending, notifications, blacklist, cbLog>>)]_vars

(***************************************************************************)
(* C37: on a connection of an enhanced Push the frames are written in      *)
(* strictly increasing order of sequence number: every number a step       *)
(* writes is greater than the last one written before it on the same       *)
(* connection (push.last), and has not been written before.                *)
(***************************************************************************)
C37_WritesAscendOnConnection ==
    [][push.enhanced => \A u \in sent' \ sent : u > push.last]_vars

\* The number of places, in the queue and in the table of notifications in
\* flight together, where notification n is held
Holders(n) ==
    Count(pending, n) + Cardinality({u \in DOMAIN notifications : notifications[u] = n})

(***************************************************************************)
(* C38: every accepted notification is held at most once, in the queue or  *)
(* in the table of notifications in flight; one that has a callback which  *)
(* has not been called yet is held exactly once, and one whose callback    *)
(* has been called is held nowhere.                                        *)
(***************************************************************************)
C38_Conservation ==
    \A n \in DOMAIN objs :
        /\ Holders(n) <= 1
        /\ (objs[n].callback /\ cbLog[n] = << >>) => Holders(n) = 1
        /\ cbLog[n] # << >> => Holders(n) = 0

\* An error report has been handled: one notification got the error, a
\* later one with a callback is back in the queue, not called.
C38_Witness ==
    \E n, m \in DOMAIN objs :
        /\ cbLog[n] # << >> /\ Holders(n) = 0
        /\ objs[m].callback /\ objs[m].identifier # NoUid
        /\ cbLog[m] = << >> /\ m \in Range(pending)

(***************************************************************************)
(* C39: at most one grace timer is pending at any time.                    *)
(***************************************************************************)
C39_OneGraceTimer == graceTimers <= 1

(***************************************************************************)
(* C40: notify() never throws, whatever the notification, one constructed  *)
(* without a device included: it returns true or false.                    *)
(***************************************************************************)
C40_NotifyNeverThrows == [][NoteNotify => ~fault']_vars

====
